---- MODULE Spec2Model ----
(***************************************************************************)
(* Static HTML generation pipeline of hub-lite                             *)
(* (src/create_static_html_files.py): StaticHtmlGenerator.run loads the    *)
(* plugin table, writes the manifest, the plugin listing and one detail    *)
(* page per record.                                                        *)
(*                                                                         *)
(* Text is a sequence of atoms.  A one-character atom is a character of    *)
(* the text; a longer atom is a fixed chunk of markup taken verbatim from  *)
(* a string literal of the source.  The empty text is << >>.  The float    *)
(* nan of a missing cell and the object None are one-atom sequences that   *)
(* no text contains.                                                       *)
(***************************************************************************)
EXTENDS Integers, Sequences, FiniteSets, TLC

\* ------------------------------------------------------------- bounds
\* Records in the loaded table.
MaxRecords == 2
\* Comma-separated clauses in a requires_python specifier.
MaxClauses == 2
\* Greatest minor version 3.M written in an input clause.
MaxMinorIn == 12
\* An int() result at or above this is a list no machine can hold.
HugeInt == 100000

\* ------------------------------------------------------------- values
NaN == <<"float:nan">>
None == <<"object:None">>

isna(v) == v = NaN

\* str(x) of a cell: the float nan prints as the text nan.
str(v) == IF v = NaN THEN <<"n", "a", "n">>
          ELSE IF v = None THEN <<"N", "o", "n", "e">>
          ELSE v

Digits == <<"0", "1", "2", "3", "4", "5", "6", "7", "8", "9">>

IsDigit(c) == \E d \in 1..10 : Digits[d] = c

DigitVal(c) == (CHOOSE d \in 1..10 : Digits[d] = c) - 1

\* str(n) of a non-negative int.
RECURSIVE IntStr(_)
IntStr(n) == IF n < 10 THEN <<Digits[n + 1]>>
             ELSE IntStr(n \div 10) \o <<Digits[(n % 10) + 1]>>

\* ------------------------------------------------------------- str methods
\* sub in s
Contains(s, sub) ==
    \E i \in 1..(Len(s) - Len(sub) + 1) : SubSeq(s, i, i + Len(sub) - 1) = sub

\* s.find(sep) + 1, 0 when absent
Find(s, sep) ==
    IF Contains(s, sep)
    THEN CHOOSE i \in 1..(Len(s) - Len(sep) + 1) :
            /\ SubSeq(s, i, i + Len(sep) - 1) = sep
            /\ \A j \in 1..(i - 1) : SubSeq(s, j, j + Len(sep) - 1) # sep
    ELSE 0

\* s.split(sep), sep non-empty
RECURSIVE Split(_, _)
Split(s, sep) ==
    LET i == Find(s, sep)
    IN  IF i = 0 THEN <<s>>
        ELSE <<SubSeq(s, 1, i - 1)>> \o Split(SubSeq(s, i + Len(sep), Len(s)), sep)

\* s.startswith(p)
StartsWith(s, p) == Len(s) >= Len(p) /\ SubSeq(s, 1, Len(p)) = p

\* sep.join(parts)
RECURSIVE Join(_, _)
Join(parts, sep) ==
    IF parts = << >> THEN << >>
    ELSE IF Len(parts) = 1 THEN parts[1]
    ELSE parts[1] \o sep \o Join(Tail(parts), sep)

\* The concatenation of a sequence of texts.
RECURSIVE Concat(_)
Concat(parts) == IF parts = << >> THEN << >> ELSE Head(parts) \o Concat(Tail(parts))

UpperCase == <<"A", "B", "C", "D", "E", "F", "G", "H", "I", "J", "K", "L", "M",
               "N", "O", "P", "Q", "R", "S", "T", "U", "V", "W", "X", "Y", "Z">>
LowerCase == <<"a", "b", "c", "d", "e", "f", "g", "h", "i", "j", "k", "l", "m",
               "n", "o", "p", "q", "r", "s", "t", "u", "v", "w", "x", "y", "z">>

LowerChar(c) == IF \E k \in 1..26 : UpperCase[k] = c
                THEN LowerCase[CHOOSE k \in 1..26 : UpperCase[k] = c]
                ELSE c

UpperChar(c) == IF \E k \in 1..26 : LowerCase[k] = c
                THEN UpperCase[CHOOSE k \in 1..26 : LowerCase[k] = c]
                ELSE c

\* s.lower()
lower(s) == [k \in 1..Len(s) |-> LowerChar(s[k])]

\* s.capitalize(): first character upper-cased, the rest lower-cased.
capitalize(s) == [k \in 1..Len(s) |-> IF k = 1 THEN UpperChar(s[k]) ELSE LowerChar(s[k])]

\* s.rstrip("s")
RECURSIVE rstrip_s(_)
rstrip_s(s) == IF s # << >> /\ s[Len(s)] = "s" THEN rstrip_s(SubSeq(s, 1, Len(s) - 1)) ELSE s

\* ------------------------------------------------------------- ast.literal_eval
\* The literals the table's list-valued cells are drawn from: a flat list of
\* quoted strings and integers, a quoted string, an integer, a bare name.
\* A value is [t, v]: t is "list" (v a sequence of values), "str" (v a text),
\* "int" (v a number), "none", or the exception raised, "ValueError" or
\* "SyntaxError".
IsLetter(c) == \E k \in 1..26 : UpperCase[k] = c \/ LowerCase[k] = c

\* The first position at or after i that holds no blank.
RECURSIVE SkipBlanks(_, _)
SkipBlanks(s, i) == IF i <= Len(s) /\ s[i] = " " THEN SkipBlanks(s, i + 1) ELSE i

\* The first position at or after i whose atom fails the test of kind k.
RECURSIVE RunEnd(_, _, _)
RunEnd(s, i, k) ==
    IF i <= Len(s) /\ ((k = "digit" /\ IsDigit(s[i])) \/ (k = "letter" /\ IsLetter(s[i])))
    THEN RunEnd(s, i + 1, k)
    ELSE i

\* int(text) of a run of digits; a value at or above HugeInt is kept as HugeInt.
RECURSIVE DigitsValue(_, _)
DigitsValue(ds, acc) ==
    IF ds = << >> THEN acc
    ELSE IF acc * 10 + DigitVal(Head(ds)) >= HugeInt THEN HugeInt
    ELSE DigitsValue(Tail(ds), acc * 10 + DigitVal(Head(ds)))

\* A quoted string whose opening quote is at i; j is where the closing
\* quote is found in the text after it (0: not found).
QuotedAt(s, i, j) ==
    IF j = 0 THEN [t |-> "SyntaxError", v |-> 0, next |-> i]
    ELSE [t |-> "str", v |-> SubSeq(s, i + 1, i + j - 1), next |-> i + j + 1]

\* A bare name: None is a constant, any other name is a malformed node.
NameAt(word, j) ==
    IF word = <<"N", "o", "n", "e">> THEN [t |-> "none", v |-> 0, next |-> j]
    ELSE [t |-> "ValueError", v |-> 0, next |-> j]

\* One scalar literal starting at i: [t, v, next].
ParseScalar(s, i) ==
    IF i > Len(s) THEN [t |-> "SyntaxError", v |-> 0, next |-> i]
    ELSE IF s[i] = "'" THEN QuotedAt(s, i, Find(SubSeq(s, i + 1, Len(s)), <<"'">>))
    ELSE IF IsDigit(s[i])
    THEN [t |-> "int", v |-> DigitsValue(SubSeq(s, i, RunEnd(s, i, "digit") - 1), 0),
          next |-> RunEnd(s, i, "digit")]
    ELSE IF IsLetter(s[i])
    THEN NameAt(SubSeq(s, i, RunEnd(s, i, "letter") - 1), RunEnd(s, i, "letter"))
    ELSE [t |-> "SyntaxError", v |-> 0, next |-> i]

\* The items of a list display after its "[": [t, v, next].  i is at an
\* item or at the closing "]"; e is the item parsed at i and j the first
\* non-blank position after it.
RECURSIVE ParseItems(_, _, _, _)
AfterItem(s, i, e, j, acc, bad) ==
    IF e.t = "SyntaxError" \/ j > Len(s)
    THEN [t |-> "SyntaxError", v |-> << >>, next |-> i]
    ELSE IF s[j] = ","
    THEN ParseItems(s, j + 1, Append(acc, [t |-> e.t, v |-> e.v]), bad \/ e.t = "ValueError")
    ELSE IF s[j] = "]"
    THEN ParseItems(s, j, Append(acc, [t |-> e.t, v |-> e.v]), bad \/ e.t = "ValueError")
    ELSE [t |-> "SyntaxError", v |-> << >>, next |-> i]

ItemAt(s, i, e, acc, bad) == AfterItem(s, i, e, SkipBlanks(s, e.next), acc, bad)

ItemsFrom(s, i, acc, bad) ==
    IF i > Len(s) THEN [t |-> "SyntaxError", v |-> << >>, next |-> i]
    ELSE IF s[i] = "]"
    THEN [t |-> IF bad THEN "ValueError" ELSE "list", v |-> acc, next |-> i + 1]
    ELSE ItemAt(s, i, ParseScalar(s, i), acc, bad)

ParseItems(s, i0, acc, bad) == ItemsFrom(s, SkipBlanks(s, i0), acc, bad)

\* The parse must end where the text ends.
WholeText(s, r) ==
    IF r.t = "SyntaxError" THEN [t |-> "SyntaxError", v |-> 0]
    ELSE IF SkipBlanks(s, r.next) <= Len(s) THEN [t |-> "SyntaxError", v |-> 0]
    ELSE [t |-> r.t, v |-> r.v]

ParseFrom(s, i) ==
    IF i <= Len(s) /\ s[i] = "[" THEN ParseItems(s, i + 1, << >>, FALSE)
    ELSE ParseScalar(s, i)

\* ast.literal_eval(text): the value, or the exception it raises.
literal_eval(s) == WholeText(s, ParseFrom(s, SkipBlanks(s, 1)))

IsException(val) == val.t \in {"ValueError", "SyntaxError"}

\* bool(value)
Truthy(val) ==
    CASE val.t = "list" -> val.v # << >>
      [] val.t = "str"  -> val.v # << >>
      [] val.t = "int"  -> val.v # 0
      [] OTHER          -> FALSE

\* Whether iter(value) works; an int or None raises TypeError.
Iterable(val) == val.t \in {"list", "str"}

\* f"{item}" of a list item.
ItemText(e) == IF e.t = "str" THEN e.v
               ELSE IF e.t = "int" THEN IntStr(e.v)
               ELSE <<"N", "o", "n", "e">>

\* The texts a for loop over the value formats: a list's items, a string's characters.
Items(val) ==
    IF val.t = "list" THEN [k \in 1..Len(val.v) |-> ItemText(val.v[k])]
    ELSE IF val.t = "str" THEN [k \in 1..Len(val.v) |-> <<val.v[k]>>]
    ELSE << >>
\* ------------------------------------------------------------- markup
\* String literals of the source, each one atom.
UL_INLINE == "<ul class=\"MetadataList_list__3DlqI list-none text-sm leading-normal inline space-y-sds-s MetadataList_inline__jHQLo\">"
UL_PLAIN == "<ul class=\"MetadataList_list__3DlqI list-none text-sm leading-normal\">"
UL_CLOSE == "</ul>"
LI_LINK == "<li class=\"MetadataList_textItem__KKmMN\"><a class=\"MetadataList_textItem__KKmMN underline\" href=\"../index.html?"
LI_PLAIN == "<li class=\"MetadataList_textItem__KKmMN\">"
HREF_END == "\">"
A_LI_CLOSE == "</a></li>"
LI_CLOSE == "</li>"

\* One linked list item: the query parameter, the value, the link text.
LinkItem(param, value, text) ==
    <<LI_LINK>> \o param \o <<"=">> \o value \o <<HREF_END>> \o text \o <<A_LI_CLOSE>>

\* What an extractor call ends with: the fragment it returns, or the
\* exception that leaves it (exc is "none" when it returns).
Returns(html) == [exc |-> "none", html |-> html]
Raises(exc) == [exc |-> exc, html |-> << >>]

\* ------------------------------------------------------------- HtmlGenerator
\* The capability names with widget tested before writer.
PluginTypesWidgetFirst(row) ==
       (IF ~isna(row.contributions_readers_0_command) THEN <<<<"r", "e", "a", "d", "e", "r">>>> ELSE << >>)
    \o (IF ~isna(row.contributions_widgets_0_command) THEN <<<<"w", "i", "d", "g", "e", "t">>>> ELSE << >>)
    \o (IF ~isna(row.contributions_writers_0_command) THEN <<<<"w", "r", "i", "t", "e", "r">>>> ELSE << >>)
    \o (IF ~isna(row.contributions_sample_data_0_command)
        THEN <<<<"s", "a", "m", "p", "l", "e", "_", "d", "a", "t", "a">>>> ELSE << >>)

\* The capability names whose indicator cell is present, in the order tested.
PluginTypes(row) ==
       (IF ~isna(row.contributions_readers_0_command) THEN <<<<"r", "e", "a", "d", "e", "r">>>> ELSE << >>)
    \o (IF ~isna(row.contributions_writers_0_command) THEN <<<<"w", "r", "i", "t", "e", "r">>>> ELSE << >>)
    \o (IF ~isna(row.contributions_widgets_0_command) THEN <<<<"w", "i", "d", "g", "e", "t">>>> ELSE << >>)
    \o (IF ~isna(row.contributions_sample_data_0_command)
        THEN <<<<"s", "a", "m", "p", "l", "e", "_", "d", "a", "t", "a">>>> ELSE << >>)

PluginTypesHtml(plugin_types) ==
    IF plugin_types = << >> THEN Returns(<< >>)
    ELSE Returns(<<UL_INLINE>>
                 \o Concat([k \in 1..Len(plugin_types) |->
                              LinkItem(<<"p", "l", "u", "g", "i", "n", "T", "y", "p", "e">>,
                                       plugin_types[k], capitalize(plugin_types[k]))])
                 \o <<UL_CLOSE>>)

generate_plugin_types_html(row) == PluginTypesHtml(PluginTypes(row))

\* An inline list of links, one per item, each filtering the index by param.
LinkList(param, items) ==
    <<UL_INLINE>>
    \o Concat([k \in 1..Len(items) |-> LinkItem(param, items[k], items[k])])
    \o <<UL_CLOSE>>

\* A plain list, one item per text.
PlainList(items) ==
    <<UL_PLAIN>>
    \o Concat([k \in 1..Len(items) |-> <<LI_PLAIN>> \o items[k] \o <<LI_CLOSE>>])
    \o <<UL_CLOSE>>

\* The try block of generate_open_extensions_html on the decoded value.
OpenExtensionsOf(patterns) ==
    IF IsException(patterns) THEN Returns(<< >>)
    ELSE IF ~Truthy(patterns) THEN Returns(<< >>)
    ELSE IF ~Iterable(patterns) THEN Raises("TypeError")
    ELSE Returns(LinkList(<<"r", "e", "a", "d", "e", "r", "F", "i", "l", "e", "E", "x", "t",
                            "e", "n", "s", "i", "o", "n", "s">>, Items(patterns)))

generate_open_extensions_html(row) ==
    IF isna(row.contributions_readers_0_filename_patterns) THEN Returns(<< >>)
    ELSE OpenExtensionsOf(literal_eval(row.contributions_readers_0_filename_patterns))

\* file_extensions after the loop over the two writer columns, or the
\* exception list.extend raises on a value that is not iterable.
RECURSIVE ExtendFrom(_, _, _)
ExtendWith(row, cols, file_extensions, val) ==
    IF IsException(val) THEN ExtendFrom(row, cols, file_extensions)
    ELSE IF ~Iterable(val) THEN [exc |-> "TypeError", items |-> << >>]
    ELSE ExtendFrom(row, cols, file_extensions \o Items(val))

ExtendFrom(row, cols, file_extensions) ==
    IF cols = << >> THEN [exc |-> "none", items |-> file_extensions]
    ELSE IF isna(row[Head(cols)]) THEN ExtendFrom(row, Tail(cols), file_extensions)
    ELSE ExtendWith(row, Tail(cols), file_extensions, literal_eval(row[Head(cols)]))

SaveExtensionsOf(r) ==
    IF r.exc # "none" THEN Raises(r.exc)
    ELSE IF r.items = << >> THEN Returns(<< >>)
    ELSE Returns(LinkList(<<"w", "r", "i", "t", "e", "r", "F", "i", "l", "e", "E", "x", "t",
                            "e", "n", "s", "i", "o", "n", "s">>, r.items))

generate_save_extensions_html(row) ==
    SaveExtensionsOf(ExtendFrom(row, <<"contributions_writers_0_filename_extensions",
                                      "contributions_writers_1_filename_extensions">>, << >>))

\* The try block of generate_requirements_html on the decoded value.
RequirementsOf(requirements) ==
    IF IsException(requirements) THEN Returns(<< >>)
    ELSE IF ~Truthy(requirements) THEN Returns(<< >>)
    ELSE IF ~Iterable(requirements) THEN Raises("TypeError")
    ELSE Returns(PlainList(Items(requirements)))

generate_requirements_html(row) ==
    IF isna(row.package_metadata_requires_dist) THEN Returns(<< >>)
    ELSE RequirementsOf(literal_eval(row.package_metadata_requires_dist))

\* ------------------------------------------------------------- versions
GE == <<">", "=">>
LE == <<"<", "=">>
LT == <<"<">>

\* s.strip() of blanks
RECURSIVE strip(_)
strip(s) == IF s # << >> /\ s[1] = " " THEN strip(Tail(s))
            ELSE IF s # << >> /\ s[Len(s)] = " " THEN strip(SubSeq(s, 1, Len(s) - 1))
            ELSE s

AllDigits(s) == \A k \in 1..Len(s) : IsDigit(s[k])

\* float(text) of a plain decimal with at most two fractional digits, in
\* hundredths ("3.1" and "3.10" are both 310); ok is FALSE where float()
\* raises ValueError.
FloatOf(whole, frac) ==
    IF ~AllDigits(whole) \/ ~AllDigits(frac) \/ (whole = << >> /\ frac = << >>)
    THEN [ok |-> FALSE, h |-> 0]
    ELSE [ok |-> TRUE,
          h |-> DigitsValue(whole, 0) * 100
                + (IF frac = << >> THEN 0
                   ELSE DigitsValue(frac, 0) * <<10, 1>>[Len(frac)])]

FloatOfParts(parts) ==
    IF Len(parts) > 2 THEN [ok |-> FALSE, h |-> 0]
    ELSE FloatOf(parts[1], IF Len(parts) = 2 THEN parts[2] ELSE << >>)

float(text) == FloatOfParts(Split(strip(text), <<".">>))

\* str(x - 0.1) for the float x of h hundredths: the binary64 difference as
\* CPython prints it (3.8 - 0.1 is 3.6999999999999997, 3.11 - 0.1 is 3.01).
FloatMinusTenthStr ==
    300 :> <<"2", ".", "9">> @@
    310 :> <<"3", ".", "0">> @@
    311 :> <<"3", ".", "0", "1">> @@
    312 :> <<"3", ".", "0", "2">> @@
    313 :> <<"3", ".", "0", "3">> @@
    314 :> <<"3", ".", "0", "4">> @@
    315 :> <<"3", ".", "0", "5">> @@
    316 :> <<"3", ".", "0", "6">> @@
    317 :> <<"3", ".", "0", "7">> @@
    318 :> <<"3", ".", "0", "8">> @@
    319 :> <<"3", ".", "0", "9">> @@
    320 :> <<"3", ".", "1">> @@
    330 :> <<"3", ".", "1", "9", "9", "9", "9", "9", "9", "9", "9", "9", "9", "9", "9", "9", "9", "7">> @@
    340 :> <<"3", ".", "3">> @@
    350 :> <<"3", ".", "4">> @@
    360 :> <<"3", ".", "5">> @@
    370 :> <<"3", ".", "6">> @@
    380 :> <<"3", ".", "6", "9", "9", "9", "9", "9", "9", "9", "9", "9", "9", "9", "9", "9", "9", "7">> @@
    390 :> <<"3", ".", "8">> @@
    400 :> <<"3", ".", "9">>

\* max_version = str(float(...) - 0.1); float() raises ValueError.
LtClause(x, st) ==
    IF ~x.ok THEN [st EXCEPT !.exc = "ValueError"]
    ELSE [st EXCEPT !.max_version = FloatMinusTenthStr[x.h]]

\* One pass of the loop of parse_version_specifier: st is [exc,
\* min_version, max_version].
ApplyClause(spec, st) ==
    IF Contains(spec, GE) THEN [st EXCEPT !.min_version = Split(spec, GE)[2]]
    ELSE IF Contains(spec, LE) THEN [st EXCEPT !.max_version = Split(spec, LE)[2]]
    ELSE IF Contains(spec, LT) THEN LtClause(float(Split(spec, LT)[2]), st)
    ELSE st

\* The loop over the clauses; an exception leaves it.
RECURSIVE ParseClauses(_, _)
ParseClauses(specs, st) ==
    IF specs = << >> \/ st.exc # "none" THEN st
    ELSE ParseClauses(Tail(specs), ApplyClause(Head(specs), st))

parse_version_specifier(specifier, default_min_version) ==
    ParseClauses(Split(specifier, <<",">>),
                 [exc |-> "none", min_version |-> default_min_version, max_version |-> None])

\* Whether int(text) succeeds: digits, blanks around them allowed.
IntOk(text) == strip(text) # << >> /\ AllDigits(strip(text))

int(text) == DigitsValue(strip(text), 0)

\* range(min_minor, max_minor): the upper bound left out.
VersionsExclusive(min_minor, max_minor) ==
    [k \in 1..(max_minor - min_minor) |-> <<"3", ".">> \o IntStr(min_minor + k - 1)]

\* f"3.{v}" for v in range(min_minor, max_minor + 1)
Versions(min_minor, max_minor) ==
    [k \in 1..(max_minor + 1 - min_minor) |-> <<"3", ".">> \o IntStr(min_minor + k - 1)]

\* The list of the versions; a range too long to hold raises MemoryError.
VersionsHtml(min_minor, max_minor) ==
    IF max_minor >= HugeInt /\ min_minor < HugeInt THEN Raises("MemoryError")
    ELSE Returns(LinkList(<<"p", "y", "t", "h", "o", "n">>, Versions(min_minor, max_minor)))

\* The try block of generate_python_versions_html: IndexError and
\* ValueError are caught.
VersionsBetween(min_parts, max_parts) ==
    IF \/ Len(min_parts) < 2 \/ ~IntOk(min_parts[2])
       \/ Len(max_parts) < 2 \/ ~IntOk(max_parts[2])
    THEN Returns(<< >>)
    ELSE VersionsHtml(int(min_parts[2]), int(max_parts[2]))

\* max_version if max_version else max_supported_version
MaxVersionOr(max_version, max_supported_version) ==
    IF max_version \in {None, << >>} THEN max_supported_version ELSE max_version

VersionsOfParsed(parsed, max_supported_version) ==
    IF parsed.exc # "none" THEN Raises(parsed.exc)
    ELSE VersionsBetween(Split(parsed.min_version, <<".">>),
                         Split(MaxVersionOr(parsed.max_version, max_supported_version),
                               <<".">>))

generate_python_versions_html(row, max_supported_version, default_min_version) ==
    IF isna(row.package_metadata_requires_python) THEN Returns(<< >>)
    ELSE VersionsOfParsed(parse_version_specifier(row.package_metadata_requires_python,
                                                  default_min_version),
                          max_supported_version)

get_os_html(classifiers) ==
    <<UL_PLAIN,
      "<li class=\"flex justify-between items-center\"><span class=\"text-napari-gray font-normal lowercase\">Information not submitted</span></li>",
      UL_CLOSE>>

HOME_DIV_OPEN == "<div class=\"flex items-center\" style=\"gap: 10px; ; align-items: center;\"\"><a href=\""
HOME_PYPI_IMG == "\" rel=\"noreferrer\" target=\"_blank\"><img src=\"../static/images/PyPI_logo.svg.png\" alt=\"PyPI\" style=\"height: 42px;\" /></a>"
HOME_A_OPEN == "<a href=\""
HOME_GITHUB_IMG == "\" rel=\"noreferrer\" target=\"_blank\"><img src=\"../static/images/GitHub_Invertocat_Logo.svg.png\" alt=\"GitHub\" style=\"height: 42px;\" /></a>"
HOME_OTHER_SVG == "\" rel=\"noreferrer\" target=\"_blank\"><svg width=\"21\" height=\"21\" viewBox=\"0 0 21 21\" fill=\"none\" xmlns=\"http://www.w3.org/2000/svg\">...</svg></a>"
HOME_DIV_CLOSE == "</div>"

\* The texts that mean "no link" once lower-cased.
AbsentTexts == {<<"n", "/", "a">>, <<"n", "o", "n", "e">>, <<"n", "a", "n">>, << >>}

\* bool(x) of a cell or argument: None and the empty text are false, nan is true.
CellTruthy(v) == v # None /\ v # << >>

\* The fragment when the texts are compared without lower-casing.
generate_home_html_case_sensitive(home_pypi, home_github, home_other) ==
    <<HOME_DIV_OPEN>> \o str(home_pypi) \o <<HOME_PYPI_IMG>>
    \o (IF CellTruthy(home_github) /\ str(home_github) \notin AbsentTexts
        THEN <<HOME_A_OPEN>> \o str(home_github) \o <<HOME_GITHUB_IMG>>
        ELSE << >>)
    \o (IF CellTruthy(home_other) /\ str(home_other) \notin AbsentTexts
        THEN <<HOME_A_OPEN>> \o str(home_other) \o <<HOME_OTHER_SVG>>
        ELSE << >>)
    \o <<HOME_DIV_CLOSE>>

generate_home_html(home_pypi, home_github, home_other) ==
    <<HOME_DIV_OPEN>> \o str(home_pypi) \o <<HOME_PYPI_IMG>>
    \o (IF CellTruthy(home_github) /\ lower(str(home_github)) \notin AbsentTexts
        THEN <<HOME_A_OPEN>> \o str(home_github) \o <<HOME_GITHUB_IMG>>
        ELSE << >>)
    \o (IF CellTruthy(home_other) /\ lower(str(home_other)) \notin AbsentTexts
        THEN <<HOME_A_OPEN>> \o str(home_other) \o <<HOME_OTHER_SVG>>
        ELSE << >>)
    \o <<HOME_DIV_CLOSE>>

\* ------------------------------------------------------------- MarkdownRenderer
\* The language names logged as missing rather than as an error.
MISSING_LEXERS ==
    {<<"a", "n", "g", "u", "l", "a", "r", "2">>, <<"b", "i", "t", "e", "x">>, <<"c", "o", "m", "m", "a", "n", "d", "l", "i", "n", "e">>, <<"m", "a", "t", "h">>,
     <<"m", "e", "r", "m", "a", "i", "d">>, <<"{", "i", "m", "p", "o", "r", "t", "a", "n", "t", "}">>, <<"{", "n", "o", "t", "e", "}">>, <<"{", "w", "a", "r", "n", "i", "n", "g", "}">>}

\* Names get_lexer_by_name resolves; every other name, the empty name
\* included, raises ClassNotFound.
KnownLexers == {<<"p", "y", "t", "h", "o", "n">>, <<"b", "a", "s", "h">>}

get_lexer_by_name(lang_name) ==
    IF lang_name \in KnownLexers THEN [ok |-> TRUE, lexer |-> lang_name]
    ELSE [ok |-> FALSE, lexer |-> << >>]

\* guess_lexer(code): some lexer, chosen from the code.
guess_lexer(code) == <<"guess_lexer">>

\* escapeHtml(text)
EscapeChar(c) ==
    CASE c = "&" -> <<"&amp;">>
      [] c = "<" -> <<"&lt;">>
      [] c = ">" -> <<"&gt;">>
      [] c = "\"" -> <<"&quot;">>
      [] OTHER -> <<c>>

escapeHtml(text) == Concat([k \in 1..Len(text) |-> EscapeChar(text[k])])

\* highlight(code, lexer, HtmlFormatter()): the escaped code inside the
\* formatter's wrapper (the token spans of the lexer are left out).
highlight(code, lexer) ==
    <<"<div class=\"highlight\"><pre>">> \o escapeHtml(code) \o <<"</pre></div>\n">>

\* The level of the record logged when the name does not resolve.
FallbackLevel(lang_name) == IF lang_name \in MISSING_LEXERS THEN "warning" ELSE "error"

HighlightWith(code, lang_name, found) ==
    [log |-> IF found.ok THEN << >>
             ELSE <<[level |-> FallbackLevel(lang_name), lang_name |-> lang_name]>>,
     html |-> highlight(code, IF found.ok THEN found.lexer ELSE guess_lexer(code))]

\* _highlight_code: [log, html], the records it logs and the text it returns.
_highlight_code(code, lang_name, lang_attrs) ==
    HighlightWith(code, lang_name, get_lexer_by_name(lang_name))

\* _render_code_block: an indented code block, highlighted with no language.
CodeBlockOf(highlighted) ==
    [log |-> highlighted.log,
     html |-> <<"<pre", "><code>">> \o highlighted.html \o <<"</code></pre>\n">>]

render_code_block(content) == CodeBlockOf(_highlight_code(escapeHtml(content), << >>, << >>))

\* The renderer's fence rule: options.highlight(content, langName, langAttrs),
\* wrapped in pre and code as the result does not start with "<pre".
FenceOf(lang_name, highlighted) ==
    [log |-> highlighted.log,
     html |-> <<"<pre><code">>
              \o (IF lang_name # << >>
                  THEN <<" class=\"language-">> \o lang_name \o <<"\"">> ELSE << >>)
              \o <<">">> \o highlighted.html \o <<"</code></pre>\n">>]

render_fence(content, lang_name) == FenceOf(lang_name, _highlight_code(content, lang_name, << >>))

\* The line without its leading spaces when there are at most three of them
\* (four or more open an indented code block).
RECURSIVE Unindent(_, _)
Unindent(line, left) ==
    IF left > 0 /\ line # << >> /\ Head(line) = " " THEN Unindent(Tail(line), left - 1)
    ELSE line

\* An ATX heading of level one: "# " after up to three spaces.
IsAtxHeading(line) == StartsWith(Unindent(line, 3), <<"#", " ">>)

\* A Setext underline of level one: a run of "=".
IsSetextUnderline(line) ==
    /\ strip(line) # << >>
    /\ \A k \in 1..Len(strip(line)) : strip(line)[k] = "="

\* A line of paragraph text.
IsParagraphLine(line) == strip(line) # << >> /\ ~IsAtxHeading(line)

Heading(text) == <<"<h1>">> \o text \o <<"</h1>\n">>

\* A fence line: three tildes after up to three spaces.
IsFenceLine(line) == StartsWith(Unindent(line, 3), <<"~", "~", "~">>)

\* The language a fence line declares, empty when it declares none.
FenceLang(line) == strip(SubSeq(Unindent(line, 3), 4, Len(Unindent(line, 3))))

\* The fence lines above line k.
FencesBefore(lines, k) == Cardinality({j \in 1..(k - 1) : IsFenceLine(lines[j])})

\* Line k is between a fence line and the fence line that closes it.
InFence(lines, k) == FencesBefore(lines, k) % 2 = 1

\* The first fence line after line k, or one past the end when none closes
\* the fence.
FenceEnd(lines, k) ==
    IF \E j \in (k + 1)..Len(lines) : IsFenceLine(lines[j])
    THEN CHOOSE j \in (k + 1)..Len(lines) :
             IsFenceLine(lines[j]) /\ \A i \in (k + 1)..(j - 1) : ~IsFenceLine(lines[i])
    ELSE Len(lines) + 1

\* The content of the fence opened at line k: its lines, each with its newline.
FenceContent(lines, k) ==
    Concat([j \in 1..(FenceEnd(lines, k) - k - 1) |-> lines[k + j] \o <<"\n">>])

\* A line of an indented code block: text after four spaces.
IsCodeLine(line) == StartsWith(line, <<" ", " ", " ", " ">>) /\ strip(line) # << >>

Plain(html) == [log |-> << >>, html |-> html]

\* One block of the rendered text.
RenderLine(line) ==
    IF strip(line) = << >> THEN Plain(<< >>)
    ELSE IF IsCodeLine(line)
    THEN render_code_block(SubSeq(line, 5, Len(line)) \o <<"\n">>)
    ELSE IF IsAtxHeading(line)
    THEN Plain(Heading(strip(SubSeq(Unindent(line, 3), 3, Len(Unindent(line, 3))))))
    ELSE Plain(<<"<p>">> \o strip(line) \o <<"</p>\n">>)

\* The block line k gives, [log, html]: a fence line opens a fenced block
\* up to the fence line that closes it; a paragraph line over a Setext
\* underline is a heading and the underline gives nothing of its own.
RenderAt(lines, k) ==
    IF InFence(lines, k) THEN Plain(<< >>)
    ELSE IF IsFenceLine(lines[k])
    THEN render_fence(FenceContent(lines, k), FenceLang(lines[k]))
    ELSE IF k > 1 /\ IsSetextUnderline(lines[k]) /\ IsParagraphLine(lines[k - 1])
            /\ ~IsSetextUnderline(lines[k - 1]) /\ ~IsCodeLine(lines[k - 1])
    THEN Plain(<< >>)
    ELSE IF k < Len(lines) /\ IsParagraphLine(lines[k]) /\ ~IsSetextUnderline(lines[k])
            /\ ~IsCodeLine(lines[k]) /\ IsSetextUnderline(lines[k + 1])
    THEN Plain(Heading(strip(lines[k])))
    ELSE RenderLine(lines[k])

RenderLines(lines) == Concat([k \in 1..Len(lines) |-> RenderAt(lines, k).html])

\* The records logged while the lines are rendered, in order.
LogLines(lines) == Concat([k \in 1..Len(lines) |-> RenderAt(lines, k).log])

\* md_renderer.render(text): each non-blank line is a block; an ATX line or
\* a line over a Setext underline is a heading, a fence or an indented line
\* a code block, any other a paragraph.
md_render(text) == RenderLines(Split(text, <<"\n">>))

\* What md_renderer.render(text) logs.
md_render_log(text) == LogLines(Split(text, <<"\n">>))

NotAvailable == <<"N", "o", "t", " ", "a", "v", "a", "i", "l", "a", "b", "l", "e">>

\* Remove the first line when it starts with "#".
StripFirstHeader(description, lines) ==
    IF StartsWith(lines[1], <<"#">>) THEN Join(Tail(lines), <<"\n">>) ELSE description

process_markdown_description(description) ==
    IF isna(description) THEN NotAvailable
    ELSE md_render(StripFirstHeader(description, Split(description, <<"\n">>)))

\* What process_markdown_description logs.
process_markdown_log(description) ==
    IF isna(description) THEN << >>
    ELSE md_render_log(StripFirstHeader(description, Split(description, <<"\n">>)))

\* str(row[col]) of a present cell; plugin_id is the only int column.
CellStr(row, col) == IF col = "plugin_id" THEN IntStr(row[col]) ELSE str(row[col])

CellIsNa(row, col) == col # "plugin_id" /\ isna(row[col])

\* Template(template).safe_substitute(row_data): a template is a sequence of
\* tokens [ph, key, text]; a placeholder whose key the mapping lacks keeps
\* its own text.
safe_substitute(template, row_data) ==
    Concat([k \in 1..Len(template) |->
              IF template[k].ph /\ template[k].key \in DOMAIN row_data
              THEN row_data[template[k].key]
              ELSE template[k].text])

\* The first exception among the extractor calls, in call order.
RECURSIVE FirstExc(_)
FirstExc(results) ==
    IF results = << >> THEN "none"
    ELSE IF Head(results).exc # "none" THEN Head(results).exc
    ELSE FirstExc(Tail(results))

\* The extractor calls of generate_plugin_html, in call order.
Sections(row) ==
    <<generate_plugin_types_html(row),
      generate_open_extensions_html(row),
      generate_save_extensions_html(row),
      generate_requirements_html(row),
      generate_python_versions_html(row, <<"3", ".", "1", "1">>, <<"3", ".", "6">>)>>

\* row_data when the columns are put over the fragments.
RowDataColumnsOver(row, sections) ==
       [col \in DOMAIN row |->
           IF ~CellIsNa(row, col) THEN CellStr(row, col) ELSE NotAvailable]
    @@ ("open_extension" :> sections[2].html)
    @@ ("save_extension" :> sections[3].html)
    @@ ("plugin_types" :> sections[1].html)
    @@ ("requirements" :> sections[4].html)
    @@ ("python_versions" :> sections[5].html)
    @@ ("os" :> get_os_html(row))
    @@ ("package_metadata_description" :>
            process_markdown_description(row.package_metadata_description))
    @@ ("home_link" :> generate_home_html(row.home_pypi, row.home_github, row.home_other))

\* row_data: every column stringified, then the fragments over them.
RowData(row, sections) ==
       ("open_extension" :> sections[2].html)
    @@ ("save_extension" :> sections[3].html)
    @@ ("plugin_types" :> sections[1].html)
    @@ ("requirements" :> sections[4].html)
    @@ ("python_versions" :> sections[5].html)
    @@ ("os" :> get_os_html(row))
    @@ ("package_metadata_description" :>
            process_markdown_description(row.package_metadata_description))
    @@ ("home_link" :> generate_home_html(row.home_pypi, row.home_github, row.home_other))
    @@ [col \in DOMAIN row |->
           IF ~CellIsNa(row, col) THEN CellStr(row, col) ELSE NotAvailable]

Filled(template, mapping) ==
    [exc |-> "none", row_data |-> mapping,
     filled_template |-> safe_substitute(template, mapping)]

FillFrom(row, template, sections) ==
    IF FirstExc(sections) # "none"
    THEN [exc |-> FirstExc(sections), row_data |-> << >>, filled_template |-> << >>]
    ELSE Filled(template, RowData(row, sections))

\* generate_plugin_html up to the write: [exc, row_data, filled_template].
generate_plugin_html(row, template) == FillFrom(row, template, Sections(row))

\* ------------------------------------------------------------- PluginListGenerator
NA == <<"N", "/", "A">>

\* row.fillna("N/A")
fillna(row) == [col \in DOMAIN row |-> IF CellIsNa(row, col) THEN NA ELSE row[col]]

ContributionKinds == <<<<"r", "e", "a", "d", "e", "r", "s">>, <<"w", "r", "i", "t", "e", "r", "s">>, <<"w", "i", "d", "g", "e", "t", "s">>, <<"s", "a", "m", "p", "l", "e", "_", "d", "a", "t", "a">>>>

ContributionColumns ==
    <<"contributions_readers_0_command", "contributions_writers_0_command",
      "contributions_widgets_0_command", "contributions_sample_data_0_command">>

\* plugin_type.append(contribution.rstrip("s")) for each indicator that is not "N/A".
PluginTypeList(row) ==
    Concat([k \in 1..4 |-> IF row[ContributionColumns[k]] # NA
                           THEN <<rstrip_s(ContributionKinds[k])>> ELSE << >>])

\* ", ".join(plugin_type) if plugin_type else "N/A"
PluginTypeText(plugin_type) ==
    IF plugin_type # << >> THEN Join(plugin_type, <<",", " ">>) ELSE NA

\* A card whose heading falls back to the name before "Unknown".
CardOfChained(index, row) ==
    [index |-> index,
     display_name |-> IF row.display_name # NA THEN row.display_name
                      ELSE IF row.name # NA THEN row.name ELSE <<"U", "n", "k", "n", "o", "w", "n">>,
     name |-> IF row.name # NA THEN row.name ELSE <<"u", "n", "k", "n", "o", "w", "n">>,
     normalized_name |-> IF row.normalized_name # NA THEN row.normalized_name
                         ELSE <<"u", "n", "k", "n", "o", "w", "n">>,
     summary |-> row.summary,
     authors |-> <<row.author>>,
     release_date |-> row.created_at,
     last_updated |-> row.modified_at,
     plugin_type |-> PluginTypeText(PluginTypeList(row))]

\* The values one iteration of create_plugins_list_html formats into a
\* card, from the row after fillna.
CardOf(index, row) ==
    [index |-> index,
     display_name |-> IF row.display_name # NA THEN row.display_name ELSE <<"U", "n", "k", "n", "o", "w", "n">>,
     name |-> IF row.name # NA THEN row.name ELSE <<"u", "n", "k", "n", "o", "w", "n">>,
     normalized_name |-> IF row.normalized_name # NA THEN row.normalized_name
                         ELSE <<"u", "n", "k", "n", "o", "w", "n">>,
     summary |-> row.summary,
     authors |-> <<row.author>>,
     release_date |-> row.created_at,
     last_updated |-> row.modified_at,
     plugin_type |-> PluginTypeText(PluginTypeList(row))]

Card(index, row) == CardOf(index, fillna(row))

\* The markup of one card.
CardHtml(card) ==
    <<"<a class=\"... searchResult ...\" data-testid=\"pluginSearchResult\" href=\"./plugins/">>
    \o card.normalized_name \o <<".html\" data-plugin-id=\"">> \o IntStr(card.index)
    \o <<"\"><article ...><div ...><div><h3 class=\"font-bold text-lg\" data-testid=\"searchResultDisplayName\">">>
    \o card.display_name
    \o <<"</h3><span ... data-testid=\"searchResultName\">">> \o card.name
    \o <<"</span><p class=\"mt-3\" data-testid=\"searchResultSummary\">">> \o card.summary
    \o <<"</p></div><ul class=\"mt-3 text-xs\">">>
    \o Concat([k \in 1..Len(card.authors) |->
                 <<"<li ... data-testid=\"searchResultAuthor\">">> \o card.authors[k]
                 \o <<"</li>\n">>])
    \o <<"</ul></div><ul ...><li ... data-label=\"First released\" ... data-value=\"">>
    \o card.release_date \o <<"\"><h4 ...>First released<!-- -->: </h4><span ...>">>
    \o card.release_date
    \o <<"</span></li><li ... data-label=\"Last updated\" ... data-value=\"">>
    \o card.last_updated \o <<"\"><h4 ...>Last updated<!-- -->: </h4><span ...>">>
    \o card.last_updated
    \o <<"</span></li><li ... data-label=\"Plugin type\" ... data-value=\"">>
    \o card.plugin_type \o <<"\"><h4 ...>Plugin type<!-- -->: </h4><span ...>">>
    \o card.plugin_type \o <<"</span></li></ul><div ...></div></article></a>">>

\* The cards of the listing, one per row, in the frame's order;
\* iterrows yields the index label, 0-based after reset_index.
Cards(df_plugins) == [i \in 1..Len(df_plugins) |-> Card(i - 1, df_plugins[i])]

\* The text create_plugins_list_html writes.
create_plugins_list_html(df_plugins) ==
    <<"<html>\n<body>\n">>
    \o Concat([i \in 1..Len(df_plugins) |-> CardHtml(Card(i - 1, df_plugins[i]))])
    \o <<"</body>\n</html>">>
\* ------------------------------------------------------------- StaticHtmlGenerator
\* Code-point order of the characters a modified_at text is made of.
DateChars == <<"-", "0", "1", "2", "3", "4", "5", "6", "7", "8", "9">>

CharRank(c) == CHOOSE k \in 1..Len(DateChars) : DateChars[k] = c

\* a < b for two texts, as Python compares str.
RECURSIVE TextLess(_, _)
TextLess(a, b) ==
    IF b = << >> THEN FALSE
    ELSE IF a = << >> THEN TRUE
    ELSE IF CharRank(Head(a)) # CharRank(Head(b)) THEN CharRank(Head(a)) < CharRank(Head(b))
    ELSE TextLess(Tail(a), Tail(b))

\* Whether row a may stand before row b after
\* sort_values(by="modified_at", ascending=False): missing values go last,
\* equal values in either order (the default sort is not stable).
MayPrecede(a, b) ==
    \/ isna(b.modified_at)
    \/ ~isna(a.modified_at) /\ ~TextLess(a.modified_at, b.modified_at)

\* The orders sort_values may leave the rows in: perm[i] is the source row
\* at position i.
SortOrders(rows) ==
    {perm \in [1..Len(rows) -> 1..Len(rows)] :
        /\ \A i, j \in 1..Len(rows) : i # j => perm[i] # perm[j]
        /\ \A i \in 1..(Len(rows) - 1) : MayPrecede(rows[perm[i]], rows[perm[i + 1]])}

\* f"{x}.html"
HtmlFilename(x) == str(x) \o <<".", "h", "t", "m", "l">>

\* The frame when the index is not reset after the sort: plugin_id is the
\* row's position in the file.
PreparedKeepsIndex(rows, perm) ==
    [i \in 1..Len(rows) |->
        ("plugin_id" :> (perm[i] - 1))
        @@ ("html_filename" :> HtmlFilename(rows[perm[i]].normalized_name))
        @@ rows[perm[i]]]

\* The frame load_and_prepare_data returns for one sort order.
Prepared(rows, perm) ==
    [i \in 1..Len(rows) |->
        ("plugin_id" :> (i - 1))
        @@ ("html_filename" :> HtmlFilename(rows[perm[i]].normalized_name))
        @@ rows[perm[i]]]

\* df_plugins[["plugin_id", "html_filename"]].to_dict(orient="records")
generate_manifest(df_plugins) ==
    [i \in 1..Len(df_plugins) |->
        [plugin_id |-> df_plugins[i].plugin_id, html_filename |-> df_plugins[i].html_filename]]

\* The calls of a run that writes the manifest after the HTML files.
run_steps_manifest_last ==
    <<"load_and_prepare_data", "generate_all_html", "generate_manifest">>

\* The calls of run, in order.
run_steps == <<"load_and_prepare_data", "generate_manifest", "generate_all_html">>
\* ------------------------------------------------------------- inputs
\* Least minor version written in an input clause.
MinMinorIn == 7
\* The runs of the script over one data directory.
MaxRuns == 2

\* A row of final_plugins.csv with only its identity and dates present.
BaseRow ==
    [normalized_name |-> <<"a">>, name |-> <<"n">>, display_name |-> <<"D">>,
     summary |-> <<"s">>, author |-> <<"u">>, created_at |-> <<"1">>, modified_at |-> <<"2">>,
     contributions_readers_0_command |-> NaN,
     contributions_writers_0_command |-> NaN,
     contributions_widgets_0_command |-> NaN,
     contributions_sample_data_0_command |-> NaN,
     contributions_readers_0_filename_patterns |-> NaN,
     contributions_writers_0_filename_extensions |-> NaN,
     contributions_writers_1_filename_extensions |-> NaN,
     package_metadata_requires_dist |-> NaN,
     package_metadata_requires_python |-> NaN,
     package_metadata_description |-> NaN,
     home_pypi |-> <<"p">>, home_github |-> NaN, home_other |-> NaN]

\* "3.m"
MinorText(m) == <<"3", ".">> \o IntStr(m)

VersionTexts == {MinorText(m) : m \in MinMinorIn..MaxMinorIn} \cup {<<"a", "b", "c">>, <<"3">>}

ClauseOps == {GE, LE, LT, <<">">>}

Clauses == {op \o v : op \in ClauseOps, v \in VersionTexts}

\* The specifiers of 1..MaxClauses clauses.
Specifiers ==
    UNION {{Join(cs, <<",">>) : cs \in [1..n -> Clauses]} : n \in 1..MaxClauses}

\* Raw texts of a list-valued cell: lists, other literals, and text that
\* does not parse.
RawLists == {NaN, <<"[", "]">>, <<"[", "'", "a", "'", "]">>, <<"[", "'", "a", "'", ",", " ", "'", "b", "'", "]">>, <<"5">>, <<"0">>, <<"'", "a", "b", "'">>,
             <<"x">>, <<"[">>, <<"N", "o", "n", "e">>}

Present == {NaN, <<"c">>}

HomeTexts == {NaN, <<"h">>, <<"n", "o", "n", "e">>, <<"N", "O", "N", "E">>}

Descriptions ==
    {NaN, <<"#", " ", "T", "\n", "b">>, <<"b">>, <<"\n", "#", " ", "T", "\n", "b">>,
     <<" ", "#", " ", "T">>, <<"T", "\n", "=", "\n", "b">>}

VersionRows == {[BaseRow EXCEPT !.package_metadata_requires_python = v] : v \in Specifiers}

ListRows ==
    {[BaseRow EXCEPT !.contributions_readers_0_filename_patterns = v] : v \in RawLists}
    \cup {[BaseRow EXCEPT !.package_metadata_requires_dist = v] : v \in RawLists}
    \cup {[BaseRow EXCEPT !.contributions_writers_0_filename_extensions = v,
                          !.contributions_writers_1_filename_extensions = w] :
             v \in RawLists, w \in RawLists}

TypeRows ==
    {[BaseRow EXCEPT !.contributions_readers_0_command = r,
                     !.contributions_writers_0_command = w,
                     !.contributions_widgets_0_command = g,
                     !.contributions_sample_data_0_command = d] :
        r \in Present, w \in Present, g \in Present, d \in Present}

HomeRows ==
    {[BaseRow EXCEPT !.home_pypi = p, !.home_github = g, !.home_other = o,
                     !.package_metadata_description = t] :
        p \in {NaN, <<"p">>}, g \in HomeTexts, o \in {NaN, <<"o">>, <<"N", "/", "a">>},
        t \in Descriptions}

NameRows ==
    {[BaseRow EXCEPT !.normalized_name = z, !.name = n, !.display_name = d] :
        z \in {NaN, <<"a">>, <<"b">>}, n \in {NaN, <<"n">>}, d \in {NaN, <<"D">>}}

DateRows ==
    {[BaseRow EXCEPT !.normalized_name = z, !.modified_at = m] :
        z \in {<<"a">>, <<"b">>}, m \in {NaN, <<"1">>, <<"2">>, <<"1", "0">>}}

\* Descriptions with a code block: fenced with no language, with a language
\* that resolves, with one on the missing list, with one that is neither,
\* and indented.
CodeDescriptions ==
    {<<"~", "~", "~", "\n", "x", "\n", "~", "~", "~">>, <<"~", "~", "~", "p", "y", "t", "h", "o", "n", "\n", "x", "\n", "~", "~", "~">>, <<"~", "~", "~", "m", "a", "t", "h", "\n", "x", "\n", "~", "~", "~">>,
     <<"~", "~", "~", "f", "o", "o", "\n", "x", "\n", "~", "~", "~">>, <<"b", "\n", "\n", " ", " ", " ", " ", "x">>}

CodeRows == {[BaseRow EXCEPT !.package_metadata_description = t] : t \in CodeDescriptions}

\* The tables the run is given: one row of each kind, and tables of up to
\* MaxRecords rows that differ in names or in dates.
Tables ==
    {<<r>> : r \in VersionRows \cup ListRows \cup TypeRows \cup HomeRows \cup CodeRows}
    \cup UNION {[1..n -> NameRows] \cup [1..n -> DateRows] : n \in 1..MaxRecords}

Lit(text) == [ph |-> FALSE, key |-> "", text |-> text]
Ph(key, text) == [ph |-> TRUE, key |-> key, text |-> text]

\* templates/each_plugin_template.html: placeholders for columns, for every
\* fragment, and one that no key matches.
PageTemplate ==
    <<Lit(<<"<h1>">>), Ph("display_name", <<"$display_name">>), Lit(<<"</h1>">>),
      Ph("name", <<"${name}">>), Ph("plugin_id", <<"$plugin_id">>),
      Ph("home_github", <<"$home_github">>),
      Ph("home_link", <<"$home_link">>), Ph("plugin_types", <<"$plugin_types">>),
      Ph("open_extension", <<"$open_extension">>), Ph("save_extension", <<"$save_extension">>),
      Ph("requirements", <<"$requirements">>), Ph("python_versions", <<"$python_versions">>),
      Ph("os", <<"$os">>),
      Ph("package_metadata_description", <<"$package_metadata_description">>),
      Ph("summary", <<"$summary">>), Ph("conda_install", <<"$conda_install">>)>>

Templates == {PageTemplate}

\* ------------------------------------------------------------- state
VARIABLES
    csv,            \* the rows of final_plugins.csv, in file order
    template,       \* the page template
    step,           \* the call of run that is next (Len(run_steps) + 1: returned)
    sub,            \* inside generate_all_html: "list", then "pages"
    next_row,       \* the row df.apply visits next
    exc,            \* the exception that ended the run, or "none"
    df,             \* df_plugins
    manifest_file,  \* plugins_manifest.json: [written, content]
    list_file,      \* plugins_list.html: [written, content]
    plugin_files,   \* the plugin directory: file name -> content
    writes,         \* the files written so far, in order
    row_data,       \* the substitution mapping of each page written
    cards,          \* the values of each card of the listing
    runs,           \* the number of the run under way, from 1
    first_run,      \* the files as the previous run left them
    highlight_log   \* the records _highlight_code has logged in this run

vars == <<csv, template, step, sub, next_row, exc, df, manifest_file, list_file,
          plugin_files, writes, row_data, cards, runs, first_run, highlight_log>>

\* The files of the build directory.
Files == [manifest |-> manifest_file, list |-> list_file, plugins |-> plugin_files]

Init ==
    /\ csv \in Tables
    /\ template \in Templates
    /\ step = 1
    /\ sub = "list"
    /\ next_row = 1
    /\ exc = "none"
    /\ df = << >>
    /\ manifest_file = [written |-> FALSE, content |-> << >>]
    /\ list_file = [written |-> FALSE, content |-> << >>]
    /\ plugin_files = << >>
    /\ writes = << >>
    /\ row_data = << >>
    /\ cards = << >>
    /\ runs = 1
    /\ first_run = Files
    /\ highlight_log = << >>

\* The file when it is opened for appending.
AppendFile(old, content) == old \o content

\* open(path, "w") and write: the file holds the new content alone.
WriteFile(old, content) == content

\* What the directory holds under the name, nothing when there is no such file.
ContentOf(dir, name) == IF name \in DOMAIN dir THEN dir[name] ELSE << >>

Running(call) == exc = "none" /\ step <= Len(run_steps) /\ run_steps[step] = call

\* load_and_prepare_data: sort, reset the index, add plugin_id and html_filename.
LoadAndPrepareData ==
    /\ Running("load_and_prepare_data")
    /\ \E perm \in SortOrders(csv) :
          /\ runs > 1 => Prepared(csv, perm) = df
          /\ df' = Prepared(csv, perm)
    /\ step' = step + 1
    /\ UNCHANGED <<highlight_log, runs, first_run, csv, template, sub, next_row, exc, manifest_file, list_file,
                   plugin_files, writes, row_data, cards>>

\* generate_manifest: write plugins_manifest.json.
GenerateManifest ==
    /\ Running("generate_manifest")
    /\ manifest_file' = [written |-> TRUE,
                         content |-> WriteFile(manifest_file.content, generate_manifest(df))]
    /\ writes' = Append(writes, [kind |-> "manifest", name |-> << >>])
    /\ step' = step + 1
    /\ UNCHANGED <<highlight_log, runs, first_run, csv, template, sub, next_row, exc, df, list_file, plugin_files,
                   row_data, cards>>

\* generate_all_html, first call: write plugins_list.html.
CreatePluginsListHtml ==
    /\ Running("generate_all_html")
    /\ sub = "list"
    /\ cards' = Cards(df)
    /\ list_file' = [written |-> TRUE,
                     content |-> WriteFile(list_file.content, create_plugins_list_html(df))]
    /\ writes' = Append(writes, [kind |-> "list", name |-> << >>])
    /\ sub' = "pages"
    /\ next_row' = 1
    /\ UNCHANGED <<highlight_log, runs, first_run, csv, template, step, exc, df, manifest_file, plugin_files, row_data>>

\* The end of generate_plugin_html for a row: the page is written, or the
\* exception leaves df.apply and run.
WritePage(row, r) ==
    IF r.exc # "none"
    THEN /\ exc' = r.exc
         /\ UNCHANGED <<plugin_files, writes, row_data, next_row>>
    ELSE /\ plugin_files' = (row.html_filename :>
                                WriteFile(ContentOf(plugin_files, row.html_filename),
                                          r.filled_template))
                            @@ plugin_files
         /\ writes' = Append(writes, [kind |-> "page", name |-> row.html_filename])
         /\ row_data' = Append(row_data, r.row_data)
         /\ next_row' = next_row + 1
         /\ exc' = exc

\* generate_all_html, df.apply: generate_plugin_html of the next row.
GeneratePluginHtml ==
    /\ Running("generate_all_html")
    /\ sub = "pages"
    /\ next_row <= Len(df)
    /\ WritePage(df[next_row], generate_plugin_html(df[next_row], template))
    /\ highlight_log'
          = highlight_log \o process_markdown_log(df[next_row].package_metadata_description)
    /\ UNCHANGED <<runs, first_run, csv, template, step, sub, df, manifest_file, list_file, cards>>

\* generate_all_html returns once df.apply has visited every row.
GenerateAllHtmlReturn ==
    /\ Running("generate_all_html")
    /\ sub = "pages"
    /\ next_row > Len(df)
    /\ step' = step + 1
    /\ sub' = "list"
    /\ UNCHANGED <<highlight_log, runs, first_run, csv, template, next_row, exc, df, manifest_file, list_file,
                   plugin_files, writes, row_data, cards>>

\* The script is run again over the same data directory and template, once
\* the run before it has returned or has ended with an exception.
RunAgain ==
    /\ runs < MaxRuns
    /\ exc # "none" \/ step = Len(run_steps) + 1
    /\ runs' = runs + 1
    /\ first_run' = Files
    /\ step' = 1
    /\ sub' = "list"
    /\ next_row' = 1
    /\ exc' = "none"
    /\ writes' = << >>
    /\ row_data' = << >>
    /\ highlight_log' = << >>
    /\ UNCHANGED <<csv, template, df, manifest_file, list_file, plugin_files, cards>>

Next ==
    \/ RunAgain
    \/ LoadAndPrepareData
    \/ GenerateManifest
    \/ CreatePluginsListHtml
    \/ GeneratePluginHtml
    \/ GenerateAllHtmlReturn

Spec == Init /\ [][Next]_vars

\* run has returned.
Done == exc = "none" /\ step = Len(run_steps) + 1
\* ------------------------------------------------------------- claims
\* Row i of df has had its page written.
Written(i) == i <= Len(row_data)

\* generate_plugin_html has been called on row i of df: its page is
\* written, or the call raised.
Attempted(i) == Written(i) \/ (exc # "none" /\ i = next_row)

PythonParam == <<"p", "y", "t", "h", "o", "n">>

\* The list of linked items 3.lo, ..., 3.hi (no item when hi < lo).
ExpectedVersionsHtml(lo, hi) ==
    <<UL_INLINE>>
    \o Concat([k \in 1..(hi + 1 - lo) |->
                 LinkItem(PythonParam, MinorText(lo + k - 1), MinorText(lo + k - 1))])
    \o <<UL_CLOSE>>

MinorsIn == MinMinorIn..MaxMinorIn

\* C1: for every specifier ">=3.A,<3.B" with A < B, the versions fragment
\* is exactly the linked items 3.A, ..., 3.(B-1) in ascending order.
C1_HalfOpenRange ==
    \A i \in 1..Len(df) : \A a \in MinorsIn : \A b \in MinorsIn :
        (/\ a < b
         /\ Attempted(i)
         /\ df[i].package_metadata_requires_python
                = GE \o MinorText(a) \o <<",">> \o LT \o MinorText(b))
        => (Written(i) /\ row_data[i].python_versions = ExpectedVersionsHtml(a, b - 1))

\* Whether the value decoded from a cell is a list of strings.
IsStrList(val) == val.t = "list" /\ \A k \in 1..Len(val.v) : val.v[k].t = "str"

\* A present cell whose text does not decode to a list of strings.
BadListCell(cell) == ~isna(cell) /\ ~IsStrList(literal_eval(cell))

\* C2: the list-decoding extractors never raise; a present cell that does
\* not decode to a list of strings gives the empty fragment for its field.
C2_ListDecodingNeverRaises ==
    \A i \in 1..Len(df) :
        Attempted(i) =>
            /\ BadListCell(df[i].contributions_readers_0_filename_patterns)
                  => (Written(i) /\ row_data[i].open_extension = << >>)
            /\ BadListCell(df[i].package_metadata_requires_dist)
                  => (Written(i) /\ row_data[i].requirements = << >>)
            /\ (/\ BadListCell(df[i].contributions_writers_0_filename_extensions)
                /\ \/ isna(df[i].contributions_writers_1_filename_extensions)
                   \/ BadListCell(df[i].contributions_writers_1_filename_extensions))
                  => (Written(i) /\ row_data[i].save_extension = << >>)

MalformedVersions == {<<"a", "b", "c">>, <<"3">>}

\* Whether a clause of the specifier is ">=", "<=" or "<" followed by a
\* malformed version.
HasMalformedClause(clauses) ==
    \E k \in 1..Len(clauses) : \E op \in {GE, LE, LT} : \E v \in MalformedVersions :
        clauses[k] = op \o v

\* C3: a specifier with a malformed version in any clause gives the empty
\* versions fragment, and generate_python_versions_html does not raise.
C3_MalformedGivesEmpty ==
    \A i \in 1..Len(df) :
        (/\ Attempted(i)
         /\ ~isna(df[i].package_metadata_requires_python)
         /\ HasMalformedClause(Split(df[i].package_metadata_requires_python, <<",">>)))
        => (Written(i) /\ row_data[i].python_versions = << >>)
GT == <<">">>

\* Clauses that set no upper bound: ">=3.m" sets the lower bound, ">3.m"
\* matches no branch of the parser.
LowerClauses == [op : {GE, GT}, m : MinorsIn]

ClauseText(c) == c.op \o MinorText(c.m)

\* Whether every clause text is one of LowerClauses.
AllLowerClauses(texts) ==
    \A k \in 1..Len(texts) : \E c \in LowerClauses : ClauseText(c) = texts[k]

\* The lower bound the clause texts ask for: the minor of the last ">="
\* clause, the default minimum when there is none.
RECURSIVE LowerBoundOf(_, _)
LowerBoundOf(texts, default) ==
    IF texts = << >> THEN default
    ELSE IF \E m \in MinorsIn : texts[Len(texts)] = GE \o MinorText(m)
    THEN CHOOSE m \in MinorsIn : texts[Len(texts)] = GE \o MinorText(m)
    ELSE LowerBoundOf(SubSeq(texts, 1, Len(texts) - 1), default)

\* Maximum supported versions 3.M the extractor is applied with.
MaxSupported == {MaxMinorIn - 2, MaxMinorIn - 1, MaxMinorIn}

\* The fragment for the clause texts of a specifier with no upper bound.
LowerOnlyHolds(i, texts) ==
    /\ \A M \in MaxSupported :
          generate_python_versions_html(df[i], MinorText(M), MinorText(6))
              = Returns(ExpectedVersionsHtml(LowerBoundOf(texts, 6), M))
    /\ Written(i)
          => row_data[i].python_versions = ExpectedVersionsHtml(LowerBoundOf(texts, 6), 11)

\* The comma-separated clause texts of the specifier of row i.
ClauseTexts(i) ==
    IF isna(df[i].package_metadata_requires_python) THEN << >>
    ELSE Split(df[i].package_metadata_requires_python, <<",">>)

\* C4: with no upper-bound clause, the versions fragment lists exactly
\* 3.A, ..., 3.M in ascending order, where 3.M is max_supported_version and
\* A is the minor of the last ">=" clause, or of the default minimum 3.6
\* when there is no ">=" clause; the pages are written with M = 11.
C4_LowerBoundOnly ==
    \A i \in 1..Len(df) :
        (ClauseTexts(i) # << >> /\ AllLowerClauses(ClauseTexts(i)))
        => LowerOnlyHolds(i, ClauseTexts(i))

\* A page is written for ">=3.8", and one for a repeated ">=" clause.
C4_Witness ==
    /\ Len(df) = 1
    /\ Written(1)
    /\ df[1].package_metadata_requires_python = GE \o MinorText(8) \o <<",">> \o GE \o MinorText(9)
    /\ row_data[1].python_versions = ExpectedVersionsHtml(9, 11)

\* No text of an emitted HTML file holds the characters n, a, n in a row.
HasNan(text) == Contains(text, <<"n", "a", "n">>)

\* C5: no HTML file the run writes, listing or detail page, contains the
\* literal text nan.
C5_NoNanText ==
    /\ list_file.written => ~HasNan(list_file.content)
    /\ \A f \in DOMAIN plugin_files : ~HasNan(plugin_files[f])
\* C6 as stated: the manifest is written last, after the listing and after
\* every detail page.
C6_ManifestLast ==
    manifest_file.written => (list_file.written /\ Len(row_data) = Len(df))

\* The writes of a complete run over the frame, in order.
ExpectedWrites(frame) ==
    <<[kind |-> "manifest", name |-> << >>], [kind |-> "list", name |-> << >>]>>
    \o [i \in 1..Len(frame) |-> [kind |-> "page", name |-> frame[i].html_filename]]

\* C6, amended: ids and file names are assigned first, then the manifest is
\* written, then the listing, then the detail pages in the frame's order;
\* a complete run has made all of these writes.
C6_ManifestFirst ==
    /\ writes # << >> => Len(df) = Len(csv)
    /\ Len(writes) <= Len(df) + 2
    /\ \A k \in 1..Len(writes) : writes[k] = ExpectedWrites(df)[k]
    /\ Done => Len(writes) = Len(df) + 2

\* A complete run over two rows.
C6_Witness == Done /\ Len(df) = 2 /\ Len(writes) = 4

\* Whether the cell is present.
IsPresent(v) == ~isna(v)

\* display_name, else name, else normalized_name, else "unknown".
FallbackName(row) ==
    IF IsPresent(row.display_name) THEN row.display_name
    ELSE IF IsPresent(row.name) THEN row.name
    ELSE IF IsPresent(row.normalized_name) THEN row.normalized_name
    ELSE <<"u", "n", "k", "n", "o", "w", "n">>

\* C7 as stated: the heading of each card falls back through display_name,
\* name, normalized_name, "unknown".
C7_FallbackChain ==
    list_file.written =>
        \A i \in 1..Len(cards) : cards[i].display_name = FallbackName(df[i])

\* C7, amended: the three names of a card do not chain.  The heading is
\* display_name when present and "Unknown" otherwise; the name line is name
\* when present and "unknown" otherwise; the link target is normalized_name
\* when present and "unknown" otherwise; the listing holds one card per row.
C7_SeparateFallbacks ==
    list_file.written =>
        /\ Len(cards) = Len(df)
        /\ \A i \in 1..Len(cards) :
              /\ cards[i].display_name
                    = IF IsPresent(df[i].display_name) THEN df[i].display_name
                      ELSE <<"U", "n", "k", "n", "o", "w", "n">>
              /\ cards[i].name
                    = IF IsPresent(df[i].name) THEN df[i].name ELSE <<"u", "n", "k", "n", "o", "w", "n">>
              /\ cards[i].normalized_name
                    = IF IsPresent(df[i].normalized_name) THEN df[i].normalized_name
                      ELSE <<"u", "n", "k", "n", "o", "w", "n">>
        /\ list_file.content
              = <<"<html>\n<body>\n">>
                \o Concat([i \in 1..Len(cards) |-> CardHtml(cards[i])])
                \o <<"</body>\n</html>">>

\* The listing holds a card of a row with a name and no display_name.
C7_Witness ==
    /\ list_file.written
    /\ \E i \in 1..Len(cards) :
          /\ isna(df[i].display_name)
          /\ IsPresent(df[i].name)
          /\ cards[i].display_name = <<"U", "n", "k", "n", "o", "w", "n">>

\* The file names of the frame are pairwise distinct.
DistinctFilenames ==
    \A i, j \in 1..Len(df) : i # j => df[i].html_filename # df[j].html_filename

\* C8 as stated: for every table the file names are pairwise distinct and
\* non-empty, and a complete run leaves one detail page per row.
C8_AlwaysDistinct ==
    /\ DistinctFilenames
    /\ \A i \in 1..Len(df) : df[i].html_filename # << >>
    /\ Done => Cardinality(DOMAIN plugin_files) = Len(df)

\* The row of the frame without the two columns load_and_prepare_data adds.
SourceColumns(row) == [col \in DOMAIN BaseRow |-> row[col]]

\* Row a is not after row b in descending modified_at order, missing last.
InOrder(a, b) ==
    IF isna(a.modified_at) THEN isna(b.modified_at)
    ELSE isna(b.modified_at) \/ ~TextLess(a.modified_at, b.modified_at)

\* C9: after load_and_prepare_data the rows are those of the file, ordered
\* by modified_at descending (rows without one last), and the row at
\* position i has plugin_id i, counted from 0; the manifest lists the
\* (plugin_id, html_filename) pairs in that order, one per row.
C9_SortedIdsAndManifest ==
    /\ df # << >> =>
          /\ Len(df) = Len(csv)
          /\ \E perm \in [1..Len(csv) -> 1..Len(csv)] :
                /\ \A i, j \in 1..Len(csv) : i # j => perm[i] # perm[j]
                /\ \A i \in 1..Len(csv) : SourceColumns(df[i]) = csv[perm[i]]
          /\ \A i \in 1..Len(df) : df[i].plugin_id = i - 1
          /\ \A i, j \in 1..Len(df) : i < j => InOrder(df[i], df[j])
    /\ manifest_file.written =>
          /\ Len(manifest_file.content) = Len(df)
          /\ \A i \in 1..Len(df) :
                manifest_file.content[i]
                    = [plugin_id |-> i - 1, html_filename |-> df[i].html_filename]

\* The manifest is written for a table whose second row is the newer one.
C9_Witness ==
    /\ manifest_file.written
    /\ Len(csv) = 2
    /\ IsPresent(csv[1].modified_at) /\ IsPresent(csv[2].modified_at)
    /\ TextLess(csv[1].modified_at, csv[2].modified_at)
    /\ SourceColumns(df[1]) = csv[2]
    /\ manifest_file.content[1].plugin_id = 0

TypeParam == <<"p", "l", "u", "g", "i", "n", "T", "y", "p", "e">>

\* The item of one capability: its link and its capitalised label.
TypeItem(kind, label) == LinkItem(TypeParam, kind, label)

\* The items of the present capabilities, in the order reader, writer,
\* widget, sample_data.
ExpectedTypeItems(row) ==
       (IF IsPresent(row.contributions_readers_0_command)
        THEN TypeItem(<<"r", "e", "a", "d", "e", "r">>, <<"R", "e", "a", "d", "e", "r">>) ELSE << >>)
    \o (IF IsPresent(row.contributions_writers_0_command)
        THEN TypeItem(<<"w", "r", "i", "t", "e", "r">>, <<"W", "r", "i", "t", "e", "r">>) ELSE << >>)
    \o (IF IsPresent(row.contributions_widgets_0_command)
        THEN TypeItem(<<"w", "i", "d", "g", "e", "t">>, <<"W", "i", "d", "g", "e", "t">>) ELSE << >>)
    \o (IF IsPresent(row.contributions_sample_data_0_command)
        THEN TypeItem(<<"s", "a", "m", "p", "l", "e", "_", "d", "a", "t", "a">>, <<"S", "a", "m", "p", "l", "e", "_", "d", "a", "t", "a">>) ELSE << >>)

\* C10: the plugin types fragment is empty when all four indicators are
\* missing, and otherwise a list of one item per present indicator in the
\* order reader, writer, widget, sample_data, each capitalised and linking
\* to the view filtered by that kind.
C10_PluginTypes ==
    \A i \in 1..Len(row_data) :
        row_data[i].plugin_types
            = IF ExpectedTypeItems(df[i]) = << >> THEN << >>
              ELSE <<UL_INLINE>> \o ExpectedTypeItems(df[i]) \o <<UL_CLOSE>>

\* A page is written for a row with only the reader indicator present, and
\* its fragment is the one item Reader.
C10_Witness ==
    /\ Len(row_data) = 1
    /\ IsPresent(df[1].contributions_readers_0_command)
    /\ isna(df[1].contributions_writers_0_command)
    /\ isna(df[1].contributions_widgets_0_command)
    /\ isna(df[1].contributions_sample_data_0_command)
    /\ row_data[1].plugin_types
          = <<UL_INLINE>> \o TypeItem(<<"r", "e", "a", "d", "e", "r">>, <<"R", "e", "a", "d", "e", "r">>) \o <<UL_CLOSE>>
\* The number of places the markup chunk stands at in the text.
CountAtom(text, atom) == Cardinality({k \in 1..Len(text) : text[k] = atom})

\* The lower-cased texts that mean "absent".
SentinelTexts == {<<"n", "/", "a">>, <<"n", "o", "n", "e">>, <<"n", "a", "n">>, << >>}

\* The field is present and is not a sentinel in any letter case.
Linked(v) == IsPresent(v) /\ v # None /\ lower(v) \notin SentinelTexts

\* The home fragment html for the three fields: one primary anchor to p,
\* and one anchor to g and to o exactly when each is linked.
HomeLinkHolds(html, p, g, o) ==
    /\ CountAtom(html, HOME_DIV_OPEN) = 1
    /\ CountAtom(html, HOME_PYPI_IMG) = 1
    /\ Contains(html, <<HOME_DIV_OPEN>> \o str(p) \o <<HOME_PYPI_IMG>>)
    /\ CountAtom(html, HOME_GITHUB_IMG) = (IF Linked(g) THEN 1 ELSE 0)
    /\ Linked(g) => Contains(html, <<HOME_A_OPEN>> \o g \o <<HOME_GITHUB_IMG>>)
    /\ CountAtom(html, HOME_OTHER_SVG) = (IF Linked(o) THEN 1 ELSE 0)
    /\ Linked(o) => Contains(html, <<HOME_A_OPEN>> \o o \o <<HOME_OTHER_SVG>>)
    /\ CountAtom(html, HOME_A_OPEN)
          = (IF Linked(g) THEN 1 ELSE 0) + (IF Linked(o) THEN 1 ELSE 0)

\* C11: the home fragment always holds the primary anchor, and holds the
\* source-hosting and the other anchor each exactly when its field is
\* present and its lower-cased text is none of "n/a", "none", "nan", "";
\* a linked field gives exactly one anchor whose href is the field.
C11_HomeAnchors ==
    \A i \in 1..Len(row_data) :
        HomeLinkHolds(row_data[i].home_link, df[i].home_pypi, df[i].home_github,
                      df[i].home_other)

\* A page is written for a row whose home_github is NONE and whose
\* home_other is a URL: no source-hosting anchor, one other anchor.
C11_Witness ==
    /\ Len(row_data) = 1
    /\ df[1].home_github = <<"N", "O", "N", "E">>
    /\ df[1].home_other = <<"o">>
    /\ CountAtom(row_data[1].home_link, HOME_GITHUB_IMG) = 0
    /\ CountAtom(row_data[1].home_link, HOME_OTHER_SVG) = 1
\* The keys generate_plugin_html adds over the columns.
FragmentKeys ==
    {"open_extension", "save_extension", "plugin_types", "requirements",
     "python_versions", "os", "package_metadata_description", "home_link"}

\* The output of the extractor a fragment key stands for.
FragmentOf(key, row) ==
    CASE key = "open_extension" -> generate_open_extensions_html(row).html
      [] key = "save_extension" -> generate_save_extensions_html(row).html
      [] key = "plugin_types" -> generate_plugin_types_html(row).html
      [] key = "requirements" -> generate_requirements_html(row).html
      [] key = "python_versions" ->
            generate_python_versions_html(row, <<"3", ".", "1", "1">>, <<"3", ".", "6">>).html
      [] key = "os" -> get_os_html(row)
      [] key = "package_metadata_description" ->
            process_markdown_description(row.package_metadata_description)
      [] key = "home_link" ->
            generate_home_html(row.home_pypi, row.home_github, row.home_other)

\* The text a column's placeholder resolves to.
ColumnText(row, col) ==
    IF col = "plugin_id" THEN IntStr(row[col])
    ELSE IF IsPresent(row[col]) THEN row[col]
    ELSE <<"N", "o", "t", " ", "a", "v", "a", "i", "l", "a", "b", "l", "e">>

\* What a token of the template resolves to for the row: a fragment key
\* first, then a column, else the placeholder's own text.
Resolve(tok, row) ==
    IF ~tok.ph THEN tok.text
    ELSE IF tok.key \in FragmentKeys THEN FragmentOf(tok.key, row)
    ELSE IF tok.key \in DOMAIN row THEN ColumnText(row, tok.key)
    ELSE tok.text

\* The page of the row as the precedence gives it.
ResolvedPage(tpl, row) == Concat([k \in 1..Len(tpl) |-> Resolve(tpl[k], row)])

\* C12: on the page just written every placeholder is resolved by a
\* fragment key first (even when a column has the same name), else by a
\* column as its text or "Not available" when missing, else left verbatim;
\* the mapping of every written page follows the same precedence.
C12_FillPrecedence ==
    /\ \A i \in 1..Len(row_data) :
          /\ \A key \in FragmentKeys : row_data[i][key] = FragmentOf(key, df[i])
          /\ \A col \in DOMAIN df[i] \ FragmentKeys :
                row_data[i][col] = ColumnText(df[i], col)
          /\ DOMAIN row_data[i] = FragmentKeys \cup DOMAIN df[i]
    /\ row_data # << >> =>
          plugin_files[df[Len(row_data)].html_filename]
              = ResolvedPage(template, df[Len(row_data)])

\* A page is written for a row with a description: the placeholder of that
\* name holds the rendered fragment, not the cell, and the placeholder no
\* key matches is still in the page.
C12_Witness ==
    /\ Len(row_data) = 1
    /\ df[1].package_metadata_description = <<"b">>
    /\ row_data[1].package_metadata_description = <<"<p>", "b", "</p>\n">>
    /\ Contains(plugin_files[df[1].html_filename], <<"<p>", "b", "</p>\n">>)
    /\ Contains(plugin_files[df[1].html_filename], <<"$conda_install">>)
\* The lines from the first that is not blank.
RECURSIVE FromFirstText(_)
FromFirstText(lines) ==
    IF lines = << >> \/ strip(Head(lines)) # << >> THEN lines
    ELSE FromFirstText(Tail(lines))

\* The title of the heading the lines open with, or NaN when they open with
\* none: "# Title" after up to three spaces, or Title over a run of "=".
TitleOf(lines) ==
    IF lines = << >> THEN NaN
    ELSE IF IsAtxHeading(lines[1])
    THEN strip(SubSeq(Unindent(lines[1], 3), 3, Len(Unindent(lines[1], 3))))
    ELSE IF Len(lines) > 1 /\ IsSetextUnderline(lines[2]) THEN strip(lines[1])
    ELSE NaN

\* The title of the top-level heading the description starts with, or NaN.
LeadingTitle(description) == TitleOf(FromFirstText(Split(description, <<"\n">>)))

\* The rendered description has no heading element with the title.
NoHeadingOf(html, title) == title = NaN \/ ~Contains(html, Heading(title))

\* C13: the rendered description of a written page is "Not available" when
\* the description is missing, and otherwise holds no heading element with
\* the text of the top-level heading the description starts with.
C13_LeadingHeadingStripped ==
    \A i \in 1..Len(row_data) :
        IF isna(df[i].package_metadata_description)
        THEN row_data[i].package_metadata_description = <<"N", "o", "t", " ", "a", "v", "a", "i", "l", "a", "b", "l", "e">>
        ELSE NoHeadingOf(row_data[i].package_metadata_description,
                         LeadingTitle(df[i].package_metadata_description))
\* The file names the records of the data directory give.
RecordFilenames == {HtmlFilename(csv[k].normalized_name) : k \in 1..Len(csv)}

\* The run under way has ended: run has returned or an exception has left it.
RunEnded == exc # "none" \/ step = Len(run_steps) + 1

\* C14: a run over the data directory and template of the run before it
\* ends with every file as that run left it: each write replaces the whole
\* file under a name its record alone determines and with the same content,
\* so the manifest, the listing and the set of detail pages with their
\* contents after the later run equal those after the earlier run.
C14_RerunIdempotent ==
    /\ DOMAIN plugin_files \subseteq RecordFilenames
    /\ (runs > 1 /\ RunEnded) =>
          /\ manifest_file = first_run.manifest
          /\ list_file = first_run.list
          /\ DOMAIN plugin_files = DOMAIN first_run.plugins
          /\ \A f \in DOMAIN plugin_files : plugin_files[f] = first_run.plugins[f]

\* The second run has returned after writing the two pages of two records
\* once more.
C14_Witness ==
    /\ runs = 2
    /\ Done
    /\ Len(row_data) = 2
    /\ Cardinality(DOMAIN plugin_files) = 2
    /\ Files = first_run
\* C15: for an inverted range ">=3.A,<=3.B" with A > B the versions
\* fragment is the empty string, not a list without items.
C15_InvertedRangeEmpty ==
    \A i \in 1..Len(df) : \A a \in MinorsIn : \A b \in MinorsIn :
        (/\ a > b
         /\ Attempted(i)
         /\ df[i].package_metadata_requires_python
                = GE \o MinorText(a) \o <<",">> \o LE \o MinorText(b))
        => (Written(i) /\ row_data[i].python_versions = << >>)
\* The markup chunk a card opens with, up to its link target.
CardOpen == Head(CardHtml(Card(0, BaseRow)))

\* C16: the listing holds exactly one card per record in the frame's
\* order, the data-plugin-id of each card is the plugin_id the manifest
\* lists for that record, and the card links to ./plugins/ followed by the
\* record's html_filename.
C16_CardsMatchManifest ==
    list_file.written =>
        /\ Len(cards) = Len(df)
        /\ CountAtom(list_file.content, CardOpen) = Len(df)
        /\ \A i \in 1..Len(cards) :
              /\ cards[i].index = manifest_file.content[i].plugin_id
              /\ cards[i].index = df[i].plugin_id
              /\ cards[i].summary = df[i].summary
              /\ cards[i].normalized_name \o <<".", "h", "t", "m", "l">> = df[i].html_filename
              /\ df[i].html_filename = manifest_file.content[i].html_filename
\* The record is logged for a block that declares no language or one of
\* the known-unsupported names.
ExpectedWarning(rec) == rec.lang_name = << >> \/ rec.lang_name \in MISSING_LEXERS

\* C17: every fallback _highlight_code logs is at warning level when no
\* language is declared (as for every indented code block) or the name is
\* on the known-unsupported list, and at error level only for a declared
\* name that is not on the list.
C17_LogSeverity ==
    \A k \in 1..Len(highlight_log) :
        /\ ExpectedWarning(highlight_log[k]) => highlight_log[k].level = "warning"
        /\ highlight_log[k].level = "error" => ~ExpectedWarning(highlight_log[k])

====
